---- MODULE Spec2Model ----
(***************************************************************************)
(* A model of simtrial's PiecewiseExponential distribution                 *)
(* (src/src/piecewise_exponential.rs): validated construction, the         *)
(* cumulative breakpoints, and inverse-CDF sampling.                       *)
(*                                                                         *)
(* f64 values are modelled as NaN, +inf, -inf or an exact rational n/d.    *)
(* Arithmetic is exact inside the finite range and overflows to an         *)
(* infinity when the magnitude of a result exceeds MaxFinite, the model's  *)
(* stand-in for f64::MAX.  Rounding, underflow and the sign of zero are    *)
(* not modelled.                                                           *)
(***************************************************************************)
EXTENDS Integers, Sequences, FiniteSets, TLC

\* ------------------------------------------------------------------ bounds
\* Largest number of intervals handed to new.
MaxLen == 3
\* Largest number of variates drawn from one random source.
MaxDraws == 2
\* Largest finite magnitude of the modelled floating-point format.
MaxFinite == 8

\* --------------------------------------------------------------- f64 layer
NaN  == [k |-> "nan",  n |-> 0, d |-> 1]
PInf == [k |-> "pinf", n |-> 0, d |-> 1]
NInf == [k |-> "ninf", n |-> 0, d |-> 1]

Abs(x) == IF x < 0 THEN -x ELSE x

RECURSIVE Gcd(_, _)
Gcd(a, b) == IF b = 0 THEN a ELSE Gcd(b, a % b)

\* The float nearest n/d (d > 0): the reduced fraction, or an infinity on overflow.
Fin(n, d) ==
    IF n > MaxFinite * d THEN PInf
    ELSE IF n < -(MaxFinite * d) THEN NInf
    ELSE LET g == Gcd(Abs(n), d)
         IN  [k |-> "fin", n |-> n \div g, d |-> d \div g]

Zero == Fin(0, 1)
One  == Fin(1, 1)

is_nan(x)           == x.k = "nan"
is_finite(x)        == x.k = "fin"
is_infinite(x)      == x.k \in {"pinf", "ninf"}
is_sign_negative(x) == x.k = "ninf" \/ (x.k = "fin" /\ x.n < 0)

\* Sign of a non-NaN value: -1, 0 or 1.
Sgn(x) ==
    IF x.k = "pinf" THEN 1
    ELSE IF x.k = "ninf" THEN -1
    ELSE IF x.n > 0 THEN 1 ELSE IF x.n < 0 THEN -1 ELSE 0

InfOf(s) == IF s > 0 THEN PInf ELSE NInf

\* a <= b in IEEE order: false whenever an operand is NaN.
FLe(a, b) ==
    IF is_nan(a) \/ is_nan(b) THEN FALSE
    ELSE IF a.k = "ninf" \/ b.k = "pinf" THEN TRUE
    ELSE IF a.k = "pinf" \/ b.k = "ninf" THEN FALSE
    ELSE a.n * b.d <= b.n * a.d

\* a > b in IEEE order: false whenever an operand is NaN.
FGt(a, b) ==
    IF is_nan(a) \/ is_nan(b) THEN FALSE
    ELSE ~FLe(a, b)

FNeg(a) ==
    IF is_nan(a) THEN NaN
    ELSE IF a.k = "pinf" THEN NInf
    ELSE IF a.k = "ninf" THEN PInf
    ELSE [k |-> "fin", n |-> -a.n, d |-> a.d]

FAdd(a, b) ==
    IF is_nan(a) \/ is_nan(b) THEN NaN
    ELSE IF is_infinite(a) /\ is_infinite(b)
         THEN (IF a.k = b.k THEN a ELSE NaN)
    ELSE IF is_infinite(a) THEN a
    ELSE IF is_infinite(b) THEN b
    ELSE Fin(a.n * b.d + b.n * a.d, a.d * b.d)

FSub(a, b) == FAdd(a, FNeg(b))

FMul(a, b) ==
    IF is_nan(a) \/ is_nan(b) THEN NaN
    ELSE IF is_infinite(a) \/ is_infinite(b)
         THEN (IF Sgn(a) * Sgn(b) = 0 THEN NaN ELSE InfOf(Sgn(a) * Sgn(b)))
    ELSE Fin(a.n * b.n, a.d * b.d)

FDiv(a, b) ==
    IF is_nan(a) \/ is_nan(b) THEN NaN
    ELSE IF is_infinite(a)
         THEN (IF is_infinite(b) THEN NaN
               ELSE InfOf(Sgn(a) * (IF Sgn(b) < 0 THEN -1 ELSE 1)))
    ELSE IF is_infinite(b) THEN Zero
    ELSE IF b.n = 0
         THEN (IF a.n = 0 THEN NaN ELSE InfOf(Sgn(a)))
    ELSE IF b.n < 0 THEN Fin(-(a.n * b.d), a.d * (-b.n))
    ELSE Fin(a.n * b.d, a.d * b.n)

RECURSIVE Log2(_)
Log2(m) == IF m <= 1 THEN 0 ELSE 1 + Log2(m \div 2)

\* f64::ln, tabulated on the powers of two as ln(2^j) = j * 7/10.
FLn(x) ==
    IF is_nan(x) THEN NaN
    ELSE IF x.k = "pinf" THEN PInf
    ELSE IF Sgn(x) < 0 THEN NaN
    ELSE IF Sgn(x) = 0 THEN NInf
    ELSE Fin(7 * (Log2(x.n) - Log2(x.d)), 10)

\* ------------------------------------------------------------------ errors
NoErr == [tag |-> "none", a |-> 0, b |-> 0]
EmptyIntervals           == [tag |-> "EmptyIntervals", a |-> 0, b |-> 0]
LengthMismatch(dl, rl)   == [tag |-> "LengthMismatch", a |-> dl, b |-> rl]
NonFiniteDuration(i)     == [tag |-> "NonFiniteDuration", a |-> i, b |-> 0]
NonPositiveDuration(i)   == [tag |-> "NonPositiveDuration", a |-> i, b |-> 0]
NonPositiveFinalDuration == [tag |-> "NonPositiveFinalDuration", a |-> 0, b |-> 0]
FinalDurationInvalid     == [tag |-> "FinalDurationInvalid", a |-> 0, b |-> 0]
NonFiniteRate(i)         == [tag |-> "NonFiniteRate", a |-> i, b |-> 0]
NonPositiveRate(i)       == [tag |-> "NonPositiveRate", a |-> i, b |-> 0]

\* ------------------------------------------------------- PiecewiseExponential
\* Sequences are 1-based here; the source's index idx is position idx + 1.
NoDist == [rates |-> << >>, cumulative_time |-> << >>, cumulative_hazard |-> << >>]

ResOk(dist) == [ok |-> TRUE, dist |-> dist, err |-> NoErr]
ResErr(e)   == [ok |-> FALSE, dist |-> NoDist, err |-> e]

\* The checks on durations[idx], mutated: a non-final duration is compared with
\* zero before it is tested for finiteness.
DurationCheckSignFirst(duration, idx, last_index) ==
    IF is_nan(duration)
    THEN (IF idx = last_index THEN FinalDurationInvalid ELSE NonFiniteDuration(idx))
    ELSE IF idx < last_index
    THEN (IF FLe(duration, Zero) THEN NonPositiveDuration(idx)
          ELSE IF ~is_finite(duration) THEN NonFiniteDuration(idx)
          ELSE NoErr)
    ELSE (IF FLe(duration, Zero) THEN NonPositiveFinalDuration
          ELSE NoErr)

\* The checks new makes on durations[idx]: the error it returns, or NoErr.
DurationCheck(duration, idx, last_index) ==
    IF is_nan(duration)
    THEN (IF idx = last_index THEN FinalDurationInvalid ELSE NonFiniteDuration(idx))
    ELSE IF idx < last_index
    THEN (IF ~is_finite(duration) THEN NonFiniteDuration(idx)
          ELSE IF FLe(duration, Zero) THEN NonPositiveDuration(idx)
          ELSE NoErr)
    ELSE (IF FLe(duration, Zero) THEN NonPositiveFinalDuration
          ELSE IF ~is_finite(duration) /\ ~is_infinite(duration) THEN FinalDurationInvalid
          ELSE IF is_infinite(duration) /\ is_sign_negative(duration)
               THEN NonPositiveFinalDuration
          ELSE NoErr)

\* The loop over durations.iter().enumerate(), from index idx on.
RECURSIVE CheckDurations(_, _, _)
CheckDurations(durations, idx, last_index) ==
    IF idx > last_index THEN NoErr
    ELSE LET e == DurationCheck(durations[idx + 1], idx, last_index)
         IN  IF e # NoErr THEN e ELSE CheckDurations(durations, idx + 1, last_index)

\* The checks on rates[idx], mutated: only a negative rate is rejected.
RateCheckStrict(rate, idx) ==
    IF ~is_finite(rate) THEN NonFiniteRate(idx)
    ELSE IF FLe(rate, Zero) /\ rate # Zero THEN NonPositiveRate(idx)
    ELSE NoErr

\* The checks new makes on rates[idx].
RateCheck(rate, idx) ==
    IF ~is_finite(rate) THEN NonFiniteRate(idx)
    ELSE IF FLe(rate, Zero) THEN NonPositiveRate(idx)
    ELSE NoErr

\* The loop over rates.iter().enumerate(), from index idx on.
RECURSIVE CheckRates(_, _)
CheckRates(rates, idx) ==
    IF idx >= Len(rates) THEN NoErr
    ELSE LET e == RateCheck(rates[idx + 1], idx)
         IN  IF e # NoErr THEN e ELSE CheckRates(rates, idx + 1)

\* The accumulation loop, for idx in 0..last_index, mutated: it runs over the
\* final interval as well.
RECURSIVE AccumulateThroughFinal(_, _, _, _, _, _, _, _)
AccumulateThroughFinal(durations, rates, idx, last_index, time_acc, hazard_acc, ct, ch) ==
    IF idx > last_index
    THEN [cumulative_time |-> ct, cumulative_hazard |-> ch]
    ELSE LET t == FAdd(time_acc, durations[idx + 1])
             h == FAdd(hazard_acc, FMul(durations[idx + 1], rates[idx + 1]))
         IN  AccumulateThroughFinal(durations, rates, idx + 1, last_index, t, h,
                                    Append(ct, t), Append(ch, h))

\* The accumulation loop, mutated: the hazard accumulator adds the bare duration.
RECURSIVE AccumulateNoRate(_, _, _, _, _, _, _, _)
AccumulateNoRate(durations, rates, idx, last_index, time_acc, hazard_acc, ct, ch) ==
    IF idx >= last_index
    THEN [cumulative_time |-> ct, cumulative_hazard |-> ch]
    ELSE LET t == FAdd(time_acc, durations[idx + 1])
             h == FAdd(hazard_acc, durations[idx + 1])
         IN  AccumulateNoRate(durations, rates, idx + 1, last_index, t, h,
                              Append(ct, t), Append(ch, h))

\* The accumulation loop, for idx in 0..last_index (the final interval excluded).
RECURSIVE Accumulate(_, _, _, _, _, _, _, _)
Accumulate(durations, rates, idx, last_index, time_acc, hazard_acc, ct, ch) ==
    IF idx >= last_index
    THEN [cumulative_time |-> ct, cumulative_hazard |-> ch]
    ELSE LET t == FAdd(time_acc, durations[idx + 1])
             h == FAdd(hazard_acc, FMul(durations[idx + 1], rates[idx + 1]))
         IN  Accumulate(durations, rates, idx + 1, last_index, t, h,
                        Append(ct, t), Append(ch, h))

\* new, mutated: the rates are checked before the durations.
NewRatesFirst(durations, rates) ==
    LET interval_count == Len(durations)
        last_index == interval_count - 1
    IN  IF interval_count = 0 THEN ResErr(EmptyIntervals)
        ELSE IF interval_count # Len(rates)
        THEN ResErr(LengthMismatch(interval_count, Len(rates)))
        ELSE LET re == CheckRates(rates, 0)
             IN  IF re # NoErr THEN ResErr(re)
                 ELSE LET de == CheckDurations(durations, 0, last_index)
                      IN  IF de # NoErr THEN ResErr(de)
                          ELSE LET acc == Accumulate(durations, rates, 0, last_index,
                                                     Zero, Zero, <<Zero>>, <<Zero>>)
                               IN  ResOk([rates |-> rates,
                                          cumulative_time |-> acc.cumulative_time,
                                          cumulative_hazard |-> acc.cumulative_hazard])

\* PiecewiseExponential::new
New(durations, rates) ==
    LET interval_count == Len(durations)
        last_index == interval_count - 1
    IN  IF interval_count = 0 THEN ResErr(EmptyIntervals)
        ELSE IF interval_count # Len(rates)
        THEN ResErr(LengthMismatch(interval_count, Len(rates)))
        ELSE LET de == CheckDurations(durations, 0, last_index)
             IN  IF de # NoErr THEN ResErr(de)
                 ELSE LET re == CheckRates(rates, 0)
                      IN  IF re # NoErr THEN ResErr(re)
                          ELSE LET acc == Accumulate(durations, rates, 0, last_index,
                                                     Zero, Zero, <<Zero>>, <<Zero>>)
                               IN  ResOk([rates |-> rates,
                                          cumulative_time |-> acc.cumulative_time,
                                          cumulative_hazard |-> acc.cumulative_hazard])

\* partition_point(|&value| value <= hazard), mutated: the predicate is value < hazard.
RECURSIVE PartitionPointStrict(_, _, _, _)
PartitionPointStrict(cumulative_hazard, hazard, left, right) ==
    IF left >= right THEN left
    ELSE LET mid == left + ((right - left) \div 2)
         IN  IF FLe(cumulative_hazard[mid + 1], hazard) /\ cumulative_hazard[mid + 1] # hazard
             THEN PartitionPointStrict(cumulative_hazard, hazard, mid + 1, right)
             ELSE PartitionPointStrict(cumulative_hazard, hazard, left, mid)

\* cumulative_hazard.partition_point(|&value| value <= hazard): the binary search
\* for the first position in left..right whose value is not <= hazard.
RECURSIVE PartitionPoint(_, _, _, _)
PartitionPoint(cumulative_hazard, hazard, left, right) ==
    IF left >= right THEN left
    ELSE LET mid == left + ((right - left) \div 2)
         IN  IF FLe(cumulative_hazard[mid + 1], hazard)
             THEN PartitionPoint(cumulative_hazard, hazard, mid + 1, right)
             ELSE PartitionPoint(cumulative_hazard, hazard, left, mid)

saturating_sub(x, y) == IF x >= y THEN x - y ELSE 0

\* The index sample_from_hazard selects (0-based).
SelectIndex(dist, hazard) ==
    saturating_sub(
        PartitionPoint(dist.cumulative_hazard, hazard, 0, Len(dist.cumulative_hazard)), 1)

\* PiecewiseExponential::sample_from_hazard
SampleFromHazard(dist, hazard) ==
    LET idx == SelectIndex(dist, hazard)
        base_time == dist.cumulative_time[idx + 1]
        offset == FDiv(FSub(hazard, dist.cumulative_hazard[idx + 1]), dist.rates[idx + 1])
    IN  FAdd(base_time, offset)

\* Result<f64, PiecewiseExponentialSampleError>: value is the draw, or the
\* payload of UniformOutOfRange.
SampleOk(v)            == [ok |-> TRUE, value |-> v]
UniformOutOfRange(v)   == [ok |-> FALSE, value |-> v]

\* inverse_cdf, mutated: the range check is 0 < uniform < 1.
InverseCdfOpen(dist, uniform) ==
    IF ~(FGt(uniform, Zero) /\ FLe(uniform, One) /\ uniform # One)
    THEN UniformOutOfRange(uniform)
    ELSE SampleOk(SampleFromHazard(dist, FNeg(FLn(uniform))))

\* PiecewiseExponential::inverse_cdf
InverseCdf(dist, uniform) ==
    IF ~(FGt(uniform, Zero) /\ FLe(uniform, One))
    THEN UniformOutOfRange(uniform)
    ELSE SampleOk(SampleFromHazard(dist, FNeg(FLn(uniform))))

\* ------------------------------------------------------------ random source
\* A seeded generator: an 8-state linear congruential generator.
seed_from_u64(seed) == seed % 8
RngNext(s) == (5 * s + 3) % 8

\* 2^e
RECURSIVE Pow2(_)
Pow2(e) == IF e = 0 THEN 1 ELSE 2 * Pow2(e - 1)

\* rng.sample(Open01): advances the generator by one step and maps its output to
\* a variate strictly between 0 and 1.
Open01(s) ==
    LET t == RngNext(s)
    IN  [rng |-> t, uniform |-> Fin(1, Pow2(1 + (t % 4)))]

\* sample, mutated: the hazard is ln(uniform) without the negation.
SampleNoNeg(dist, s) ==
    LET dr == Open01(s)
        hazard == FLn(dr.uniform)
    IN  [rng |-> dr.rng, value |-> SampleFromHazard(dist, hazard)]

\* PiecewiseExponential::sample: the draw and the generator's next state.
Sample(dist, s) ==
    LET dr == Open01(s)
        hazard == FNeg(FLn(dr.uniform))
    IN  [rng |-> dr.rng, value |-> SampleFromHazard(dist, hazard)]

\* (i..n).map(|_| self.sample(rng)).collect(), with acc the draws collected so far.
RECURSIVE SampleNFrom(_, _, _, _, _)
SampleNFrom(dist, i, n, s, acc) ==
    IF i >= n THEN [rng |-> s, values |-> acc]
    ELSE LET r == Sample(dist, s)
         IN  SampleNFrom(dist, i + 1, n, r.rng, Append(acc, r.value))

\* sample_n, mutated: the range is 0..=n.
SampleNInclusive(dist, n, s) == SampleNFrom(dist, 0, n + 1, s, << >>)

\* PiecewiseExponential::sample_n
SampleN(dist, n, s) == SampleNFrom(dist, 0, n, s, << >>)

\* ------------------------------------------------------------- state machine
VARIABLES
    durations,   \* the durations slice handed to new
    rates,       \* the rates slice handed to new
    built,       \* "none" before new is called, then "ok" or "err"
    dist,        \* the PiecewiseExponential new returned (NoDist when there is none)
    err,         \* the PiecewiseExponentialError new returned (NoErr when there is none)
    seed,        \* seed[w]: the seed of caller w's random source
    rng,         \* rng[w]: the state of caller w's random source
    out,         \* out[w]: the draws caller w has obtained from sample and sample_n
    last         \* the last call made and what it returned

vars == <<durations, rates, built, dist, err, seed, rng, out, last>>

\* The callers, each owning one random source.
Callers == {"A", "B"}

\* All sequences over S of length at most n.
SeqsUpTo(S, n) == UNION {[1..k -> S] : k \in 0..n}

\* Input values for the construction checks: every class of f64 new tells apart.
NewValues == {NaN, NInf, PInf, Zero, One}
\* Input values for sampling: breakpoints on and off the hazards drawn, values
\* large and small enough to overflow, and one rejected value each.
SampleDurations == {Fin(7, 10), Fin(5, 1), PInf}
SampleRates == {Fin(1, 10), Fin(2, 1), Zero}
\* Input values and seeds for the runs that compare random sources.
RngDurations == {Fin(7, 10), PInf}
RngRates == {Fin(1, 10), Fin(2, 1)}
Seeds == {1, 6}
\* Input values for the runs about the final interval: durations whose sums
\* overflow, rates small enough for a time to overflow inside an interval.
TailDurations == {Fin(7, 10), Fin(5, 1), PInf}
TailRates == {Fin(1, 10), Fin(1, 5)}
\* Arguments handed to inverse_cdf.
Uniforms == {NaN, Fin(-1, 2), Zero, Fin(2, 1), One, Fin(1, 4), Fin(1, 16)}

NoCall == [op |-> "none", who |-> "-", n |-> 0, arg |-> Zero, ok |-> TRUE, ret |-> << >>]

InitRest ==
    /\ built = "none"
    /\ dist = NoDist
    /\ err = NoErr
    /\ rng = [w \in Callers |-> seed_from_u64(seed[w])]
    /\ out = [w \in Callers |-> << >>]
    /\ last = NoCall

\* Inputs for sampling.
Init ==
    /\ durations \in SeqsUpTo(SampleDurations, MaxLen)
    /\ rates \in SeqsUpTo(SampleRates, MaxLen)
    /\ seed = [w \in Callers |-> 1]
    /\ InitRest

\* Inputs for the random sources: every pair of seeds.
InitRng ==
    /\ durations \in SeqsUpTo(RngDurations, MaxLen)
    /\ rates \in SeqsUpTo(RngRates, MaxLen)
    /\ seed \in [Callers -> Seeds]
    /\ InitRest

\* Inputs for construction.
InitNew ==
    /\ durations \in SeqsUpTo(NewValues, MaxLen)
    /\ rates \in SeqsUpTo(NewValues, MaxLen)
    /\ seed = [w \in Callers |-> 1]
    /\ InitRest

\* Inputs for the final interval.
InitTail ==
    /\ durations \in SeqsUpTo(TailDurations, MaxLen)
    /\ rates \in SeqsUpTo(TailRates, MaxLen)
    /\ seed = [w \in Callers |-> 1]
    /\ InitRest

\* let result = PiecewiseExponential::new(&durations, &rates)
CallNew ==
    /\ built = "none"
    /\ LET res == New(durations, rates)
       IN  /\ built' = IF res.ok THEN "ok" ELSE "err"
           /\ dist' = res.dist
           /\ err' = res.err
           /\ last' = [NoCall EXCEPT !.op = "new", !.ok = res.ok]
    /\ UNCHANGED <<durations, rates, seed, rng, out>>

\* sample by caller w, mutated: the variate comes from one generator shared by
\* all callers instead of the generator the caller supplies.
CallSampleSharedRng(w) ==
    /\ built = "ok"
    /\ Len(out[w]) < MaxDraws
    /\ LET r == Sample(dist, rng["A"])
       IN  /\ rng' = [rng EXCEPT !["A"] = r.rng]
           /\ out' = [out EXCEPT ![w] = Append(@, r.value)]
           /\ last' = [NoCall EXCEPT !.op = "sample", !.who = w, !.ret = <<r.value>>]
    /\ UNCHANGED <<durations, rates, built, dist, err, seed>>

\* dist.sample(&mut rng) by caller w
CallSample(w) ==
    /\ built = "ok"
    /\ Len(out[w]) < MaxDraws
    /\ LET r == Sample(dist, rng[w])
       IN  /\ rng' = [rng EXCEPT ![w] = r.rng]
           /\ out' = [out EXCEPT ![w] = Append(@, r.value)]
           /\ last' = [NoCall EXCEPT !.op = "sample", !.who = w, !.ret = <<r.value>>]
    /\ UNCHANGED <<durations, rates, built, dist, err, seed>>

\* dist.sample_n(n, &mut rng) by caller w
CallSampleN(w, n) ==
    /\ built = "ok"
    /\ Len(out[w]) + n <= MaxDraws
    /\ LET r == SampleN(dist, n, rng[w])
       IN  /\ rng' = [rng EXCEPT ![w] = r.rng]
           /\ out' = [out EXCEPT ![w] = @ \o r.values]
           /\ last' = [NoCall EXCEPT !.op = "sample_n", !.who = w, !.n = n,
                                     !.ret = r.values]
    /\ UNCHANGED <<durations, rates, built, dist, err, seed>>

\* dist.inverse_cdf(uniform)
CallInverseCdf(uniform) ==
    /\ built = "ok"
    /\ LET r == InverseCdf(dist, uniform)
       IN  last' = [NoCall EXCEPT !.op = "inverse_cdf", !.arg = uniform,
                                  !.ok = r.ok, !.ret = <<r.value>>]
    /\ UNCHANGED <<durations, rates, built, dist, err, seed, rng, out>>

Next ==
    \/ CallNew
    \/ \E w \in Callers : CallSample(w)
    \/ \E w \in Callers : \E n \in 0..MaxDraws : CallSampleN(w, n)
    \/ \E uniform \in Uniforms : CallInverseCdf(uniform)

Spec == Init /\ [][Next]_vars
SpecNew == InitNew /\ [][Next]_vars
SpecRng == InitRng /\ [][Next]_vars
SpecTail == InitTail /\ [][Next]_vars

\* ------------------------------------------------------------ claims: new
DurationTags == {"NonFiniteDuration", "NonPositiveDuration",
                 "NonPositiveFinalDuration", "FinalDurationInvalid"}
RateTags == {"NonFiniteRate", "NonPositiveRate"}

LastIndex == Len(durations) - 1

\* durations[i] breaks a rule of its position; rates[i] breaks a rule.
DurOffends(i) ==
    LET d == durations[i + 1]
    IN  IF i = LastIndex
        THEN is_nan(d) \/ d = NInf \/ (is_finite(d) /\ d.n <= 0)
        ELSE ~is_finite(d) \/ d.n <= 0
RateOffends(i) ==
    LET r == rates[i + 1]
    IN  ~is_finite(r) \/ r.n <= 0

Min(S) == CHOOSE x \in S : \A y \in S : x <= y

\* The place of an error in the order of the checks: its group (1 empty, 2 length
\* mismatch, 3 durations, 4 rates, 5 no error) and the index it is about.
ErrPlace(e) ==
    IF e.tag = "EmptyIntervals" THEN <<1, 0>>
    ELSE IF e.tag = "LengthMismatch" THEN <<2, 0>>
    ELSE IF e.tag \in {"NonFiniteDuration", "NonPositiveDuration"} THEN <<3, e.a>>
    ELSE IF e.tag \in {"NonPositiveFinalDuration", "FinalDurationInvalid"}
         THEN <<3, LastIndex>>
    ELSE IF e.tag \in RateTags THEN <<4, e.a>>
    ELSE <<5, 0>>

\* The earliest violated check of the inputs, as a place.
FirstViolation ==
    LET badD == {i \in 0..LastIndex : DurOffends(i)}
        badR == {i \in 0..(Len(rates) - 1) : RateOffends(i)}
    IN  IF Len(durations) = 0 THEN <<1, 0>>
        ELSE IF Len(durations) # Len(rates) THEN <<2, 0>>
        ELSE IF badD # {} THEN <<3, Min(badD)>>
        ELSE IF badR # {} THEN <<4, Min(badR)>>
        ELSE <<5, 0>>

\* C1: new reports exactly one error, the earliest violated check in the order
\* empty durations, length mismatch (carrying both lengths), durations from
\* index 0 upward, rates from index 0 upward; it succeeds when none is violated.
C1_FirstViolationReported ==
    built # "none" =>
        /\ ErrPlace(err) = FirstViolation
        /\ (Len(durations) = 0 => err = EmptyIntervals)
        /\ (Len(durations) # 0 /\ Len(durations) # Len(rates)
                => err = LengthMismatch(Len(durations), Len(rates)))
        /\ (built = "ok") = (err = NoErr)

\* A run of new on inputs with three violations: durations 1 and 2 and rate 0.
C1_Witness ==
    /\ built = "err"
    /\ Len(durations) = 3 /\ Len(rates) = 3
    /\ ~DurOffends(0) /\ DurOffends(1) /\ DurOffends(2) /\ RateOffends(0)
    /\ err.tag \in DurationTags /\ err.a = 1

\* The error the rules give a duration at index i, and a rate at index i.
ClassifyDuration(d, i) ==
    IF i # LastIndex
    THEN (IF d \in {NaN, PInf, NInf} THEN NonFiniteDuration(i)
          ELSE IF d.n <= 0 THEN NonPositiveDuration(i)
          ELSE NoErr)
    ELSE (IF d = NaN THEN FinalDurationInvalid
          ELSE IF d = NInf \/ (d # PInf /\ d.n <= 0) THEN NonPositiveFinalDuration
          ELSE NoErr)
ClassifyRate(r, i) ==
    IF r \in {NaN, PInf, NInf} THEN NonFiniteRate(i)
    ELSE IF r.n <= 0 THEN NonPositiveRate(i)
    ELSE NoErr

\* C2: the error new reports about a duration or a rate is the one the rules
\* give that value (non-final duration: NaN or infinite is NonFiniteDuration,
\* else <= 0 is NonPositiveDuration; final duration: NaN is
\* FinalDurationInvalid, else <= 0 or -inf is NonPositiveFinalDuration; rate:
\* not finite is NonFiniteRate, else <= 0 is NonPositiveRate), and new returns
\* Ok exactly when the lengths are equal and non-zero and no value offends.
C2_Classification ==
    built # "none" =>
        /\ (err.tag \in DurationTags =>
                err = ClassifyDuration(durations[ErrPlace(err)[2] + 1], ErrPlace(err)[2]))
        /\ (err.tag \in RateTags =>
                err = ClassifyRate(rates[ErrPlace(err)[2] + 1], ErrPlace(err)[2]))
        /\ (built = "ok") =
              (/\ Len(durations) # 0
               /\ Len(durations) = Len(rates)
               /\ \A i \in 0..LastIndex :
                      /\ ClassifyDuration(durations[i + 1], i) = NoErr
                      /\ ClassifyRate(rates[i + 1], i) = NoErr)

\* new has rejected a non-final duration of negative infinity as non-finite.
C2_Witness ==
    /\ built = "err"
    /\ err.tag = "NonFiniteDuration"
    /\ durations[err.a + 1] = NInf

\* -------------------------------------------------------- claims: sampling
\* uniform lies outside (0, 1]: zero, negative, above one, or NaN.
OutOfRange(u) ==
    \/ u = NaN
    \/ u \in {PInf, NInf}
    \/ u.n <= 0
    \/ u.n > u.d

\* C3: inverse_cdf(uniform) returns UniformOutOfRange carrying its input exactly
\* when the input is outside (0, 1] (zero, negative, above one, NaN) and Ok for
\* every input in (0, 1], one included; either way it leaves the random sources
\* and the distribution as they were.
C3_InverseCdfRange ==
    [][last'.op = "inverse_cdf" =>
          /\ last'.ok = ~OutOfRange(last'.arg)
          /\ (~last'.ok => last'.ret = <<last'.arg>>)
          /\ Len(last'.ret) = 1
          /\ rng' = rng /\ out' = out /\ dist' = dist /\ built' = built]_vars

\* inverse_cdf has accepted one, the closed end of the range.
C3_Witness ==
    /\ last.op = "inverse_cdf"
    /\ last.arg = One
    /\ last.ok

\* The hazards a uniform in (0, 1] of the model can give.
Hazards == {FNeg(FLn(Fin(1, Pow2(e)))) : e \in 0..4}

\* The reference lookup: the rightmost position whose breakpoint is <= hazard,
\* else 0 (rposition(|&value| value <= hazard).unwrap_or(0)).
RefIndex(cumulative_hazard, hazard) ==
    LET fits == {i \in 0..(Len(cumulative_hazard) - 1) :
                    FLe(cumulative_hazard[i + 1], hazard)}
    IN  IF fits = {} THEN 0 ELSE CHOOSE i \in fits : \A j \in fits : j <= i

\* C4: for a valid distribution and a hazard h >= 0, sample_from_hazard selects
\* the greatest index whose cumulative hazard is <= h (a valid index of all three
\* sequences, the same the reference lookup finds) and returns
\* cumulative_time[idx] + (h - cumulative_hazard[idx]) / rates[idx].
C4_SegmentLookup ==
    built = "ok" =>
        /\ \A h \in Hazards :
              LET idx == SelectIndex(dist, h)
              IN  /\ idx \in 0..(Len(dist.rates) - 1)
                  /\ idx \in 0..(Len(dist.cumulative_time) - 1)
                  /\ idx \in 0..(Len(dist.cumulative_hazard) - 1)
                  /\ idx = RefIndex(dist.cumulative_hazard, h)
        /\ (last.op = "inverse_cdf" /\ last.ok =>
              LET h == FNeg(FLn(last.arg))
                  ref == RefIndex(dist.cumulative_hazard, h)
              IN  last.ret = <<FAdd(dist.cumulative_time[ref + 1],
                                    FDiv(FSub(h, dist.cumulative_hazard[ref + 1]),
                                         dist.rates[ref + 1]))>>)

\* inverse_cdf has been given a hazard equal to the middle breakpoint of a
\* three-interval distribution, and has returned that breakpoint's time.
C4_Witness ==
    /\ built = "ok"
    /\ Len(dist.rates) = 3
    /\ last.op = "inverse_cdf" /\ last.ok
    /\ dist.cumulative_hazard[2] = FNeg(FLn(last.arg))
    /\ FGt(dist.cumulative_hazard[3], FNeg(FLn(last.arg)))
    /\ last.ret = <<dist.cumulative_time[2]>>

\* Exact fractions <<numerator, denominator>> of the finite inputs.
RECURSIVE DurationSum(_)
DurationSum(i) ==
    IF i = 0 THEN <<0, 1>>
    ELSE LET s == DurationSum(i - 1)
             d == durations[i]
         IN  <<s[1] * d.d + d.n * s[2], s[2] * d.d>>
RECURSIVE HazardSum(_)
HazardSum(i) ==
    IF i = 0 THEN <<0, 1>>
    ELSE LET s == HazardSum(i - 1)
             d == durations[i]
             r == rates[i]
         IN  <<s[1] * (d.d * r.d) + (d.n * r.n) * s[2], s[2] * (d.d * r.d)>>

\* C5: when new succeeds with k intervals it stores rates verbatim, and for every
\* i in 0..k-1 cumulative_time[i] is the sum of durations[0..i) and
\* cumulative_hazard[i] the sum of durations[j] * rates[j] for j in 0..i); the
\* final interval's duration is added to neither.
C5_CumulativeSums ==
    built = "ok" =>
        /\ dist.rates = rates
        /\ Len(dist.cumulative_time) = Len(durations)
        /\ Len(dist.cumulative_hazard) = Len(durations)
        /\ \A i \in 0..LastIndex :
              /\ dist.cumulative_time[i + 1] = Fin(DurationSum(i)[1], DurationSum(i)[2])
              /\ dist.cumulative_hazard[i + 1] = Fin(HazardSum(i)[1], HazardSum(i)[2])

\* new has built three intervals with distinct finite breakpoints and an infinite
\* final duration.
C5_Witness ==
    /\ built = "ok"
    /\ Len(durations) = 3
    /\ durations[3] = PInf
    /\ is_finite(dist.cumulative_time[3])
    /\ is_finite(dist.cumulative_hazard[3])
    /\ dist.cumulative_hazard[3] # dist.cumulative_time[3]
    /\ dist.cumulative_hazard[3] # dist.cumulative_hazard[2]

\* The data-model invariants of a constructed distribution.
DistInvariants ==
    built = "ok" =>
        /\ Len(durations) >= 1
        /\ Len(dist.rates) = Len(durations)
        /\ Len(dist.cumulative_time) = Len(durations)
        /\ Len(dist.cumulative_hazard) = Len(durations)
        /\ dist.cumulative_time[1] = Zero
        /\ dist.cumulative_hazard[1] = Zero
        /\ \A i \in 1..(Len(dist.cumulative_time) - 1) :
              FLe(dist.cumulative_time[i], dist.cumulative_time[i + 1])
        /\ \A i \in 1..(Len(dist.cumulative_hazard) - 1) :
              FLe(dist.cumulative_hazard[i], dist.cumulative_hazard[i + 1])
        /\ \A i \in 1..Len(dist.rates) :
              is_finite(dist.rates[i]) /\ FGt(dist.rates[i], Zero)

\* C6: every distribution new returns has three sequences of the interval count
\* (>= 1), both cumulative sequences start at 0 and are non-decreasing, every
\* rate is finite and positive; and no sample, sample_n or inverse_cdf call, by
\* either caller, failed or not, changes the distribution.
C6_DistributionImmutable ==
    /\ []DistInvariants
    /\ [][built = "ok" => (built' = "ok" /\ dist' = dist)]_vars

\* Both callers have drawn from the distribution, and an inverse_cdf call has
\* failed after that.
C6_Witness ==
    /\ built = "ok"
    /\ Len(dist.rates) = 3
    /\ Len(out["A"]) >= 1 /\ Len(out["B"]) >= 1
    /\ last.op = "inverse_cdf" /\ ~last.ok

\* The generator's state after n steps from s.
RECURSIVE AdvanceN(_, _)
AdvanceN(s, n) == IF n = 0 THEN s ELSE AdvanceN(RngNext(s), n - 1)

\* The i-th variate (from 1) a source seeded with sd yields.
NthUniform(sd, i) == Open01(AdvanceN(seed_from_u64(sd), i - 1)).uniform

\* C7: replay equivalence.  Every variate sample draws lies in (0, 1], and
\* inverse_cdf applied to the variates a source yields returns Ok with exactly
\* the values sample and sample_n returned when drawing them.
C7_ReplayEquivalence ==
    built = "ok" =>
        \A w \in Callers : \A i \in 1..Len(out[w]) :
            LET u == NthUniform(seed[w], i)
            IN  /\ FGt(u, Zero) /\ FLe(u, One)
                /\ InverseCdf(dist, u) = SampleOk(out[w][i])

\* A caller has drawn two different values from a three-interval distribution.
C7_Witness ==
    /\ built = "ok"
    /\ Len(dist.rates) = 3
    /\ Len(out["A"]) = 2
    /\ out["A"][1] # out["A"][2]

\* C8: sample_n(n, rng) returns n values, the i-th computed from the i-th
\* variate the source yields, appends nothing else to the caller's draws,
\* advances that source by exactly n steps and leaves the other source alone;
\* for n = 0 it returns the empty sequence and changes no source.
C8_SampleNDrawsInOrder ==
    [][last'.op = "sample_n" =>
          LET w == last'.who
              n == last'.n
          IN  /\ Len(last'.ret) = n
              /\ rng'[w] = AdvanceN(rng[w], n)
              /\ \A i \in 1..n :
                    last'.ret[i] =
                        SampleFromHazard(dist,
                            FNeg(FLn(Open01(AdvanceN(rng[w], i - 1)).uniform)))
              /\ out'[w] = out[w] \o last'.ret
              /\ \A v \in Callers \ {w} : rng'[v] = rng[v] /\ out'[v] = out[v]
              /\ (n = 0 => last'.ret = << >> /\ rng' = rng)]_vars

\* sample_n(2, rng) has returned two different values.
C8_Witness ==
    /\ last.op = "sample_n"
    /\ last.n = 2
    /\ Len(last.ret) = 2
    /\ last.ret[1] # last.ret[2]

\* C9: determinism.  Two sources seeded alike give the same draws, position by
\* position, from the same distribution, and after equally many draws they are
\* in the same state, whatever calls produced the draws.
C9_Determinism ==
    (built = "ok" /\ seed["A"] = seed["B"]) =>
        /\ \A i \in 1..Len(out["A"]) : i <= Len(out["B"]) => out["A"][i] = out["B"][i]
        /\ (Len(out["A"]) = Len(out["B"]) => out["A"] = out["B"] /\ rng["A"] = rng["B"])

\* Two sources seeded alike have each given two draws, not all the same.
C9_Witness ==
    /\ built = "ok"
    /\ seed["A"] = seed["B"]
    /\ Len(out["A"]) = 2 /\ Len(out["B"]) = 2
    /\ out["A"][1] # out["A"][2]

\* The distribution was built with a final duration of +inf and the last call
\* returned draws.
InfiniteTailDraw ==
    /\ built = "ok"
    /\ durations[Len(durations)] = PInf
    /\ \/ last.op \in {"sample", "sample_n"}
       \/ last.op = "inverse_cdf" /\ last.ok

\* C10 as stated: with an infinite final interval, every draw for a uniform in
\* (0, 1] is finite.
C10_AlwaysFinite ==
    InfiniteTailDraw => \A i \in 1..Len(last.ret) : is_finite(last.ret[i])

\* The exact value <<numerator, denominator>> of
\* cumulative_time[idx] + (h - cumulative_hazard[idx]) / rates[idx] for finite
\* operands.
ExactTime(ct, h, ch, r) ==
    <<ct.n * (h.d * ch.d * r.n) + ((h.n * ch.d - ch.n * h.d) * r.d) * ct.d,
      ct.d * h.d * ch.d * r.n>>

\* C10, amended: with an infinite final interval, a draw for a uniform in (0, 1]
\* is never NaN and never negative, and no NaN and no infinite rate is stored;
\* the draw is the exact time when the selected cumulative_time breakpoint is
\* finite and the exact time does not exceed the largest finite value, and
\* +inf otherwise (floating-point overflow).
C10_FiniteUnlessOverflow ==
    InfiniteTailDraw =>
        /\ \A i \in 1..Len(last.ret) : ~is_nan(last.ret[i]) /\ FLe(Zero, last.ret[i])
        /\ \A i \in 1..Len(dist.rates) :
              /\ is_finite(dist.rates[i])
              /\ ~is_nan(dist.cumulative_time[i])
              /\ ~is_nan(dist.cumulative_hazard[i])
        /\ (last.op = "inverse_cdf" =>
              LET h == FNeg(FLn(last.arg))
                  idx == RefIndex(dist.cumulative_hazard, h)
                  ct == dist.cumulative_time[idx + 1]
                  ch == dist.cumulative_hazard[idx + 1]
                  r == dist.rates[idx + 1]
                  x == ExactTime(ct, h, ch, r)
              IN  /\ is_finite(ch)
                  /\ last.ret = <<IF is_finite(ct) /\ x[1] <= MaxFinite * x[2]
                                  THEN Fin(x[1], x[2]) ELSE PInf>>)

\* inverse_cdf has returned +inf from a distribution with an infinite final
\* interval whose stored breakpoints are all finite.
C10_Witness ==
    /\ InfiniteTailDraw
    /\ last.op = "inverse_cdf"
    /\ last.ret = <<PInf>>
    /\ \A i \in 1..Len(dist.rates) :
          is_finite(dist.cumulative_time[i]) /\ is_finite(dist.cumulative_hazard[i])

\* ------------------------------------------------- claims: the final interval
\* The last call was an accepted inverse_cdf.
CdfReturned == built = "ok" /\ last.op = "inverse_cdf" /\ last.ok

WithFinal(f) == [durations EXCEPT ![Len(durations)] = f]

\* Final durations new accepts.
FinalDurations == {Fin(7, 10), One, Fin(5, 1), PInf}

====
